---- MODULE Spec2Model ----
(***************************************************************************)
(* Ambulance allocation: the three decision models (BaseModel,             *)
(* BinaryModel, ConsistencyModel), the coverage matrix the scripts build   *)
(* for them, and the configuration enumerator (PathGenerator).             *)
(*                                                                         *)
(* A model object is driven as the scripts drive it:                       *)
(*   initialize_environment -> (build_model -> optimize)* -> cleanup,      *)
(* where an exception of build_model or optimize ends the script at once,  *)
(* as does an exception of the data loading that precedes the first step.  *)
(* build_model records the constraint system it adds to the solver model;  *)
(* optimize is the external solver: it reports INFEASIBLE when no          *)
(* assignment satisfies the recorded constraints, OPTIMAL with an          *)
(* assignment of least objective, or TIME_LIMIT with any feasible          *)
(* incumbent (or none).  calls holds the calls on the solver library that  *)
(* the latest step of the script made, in the order of the code.           *)
(***************************************************************************)
EXTENDS Integers, Sequences, FiniteSets, TLC

VARIABLES cls, args, env, live, built, status, sol, pc, num_rows, last_row,
          calls, pg_args, pg_idx, all_base_nodes, configs, pg_pc

vars == <<cls, args, env, live, built, status, sol, pc, num_rows, last_row,
          calls, pg_args, pg_idx, all_base_nodes, configs, pg_pc>>

modelVars == <<cls, args, env, live, built, status, sol, pc, num_rows, last_row,
              calls>>
pgVars == <<pg_args, pg_idx, all_base_nodes, configs, pg_pc>>

(***************************************************************************)
(* Bounds of the model.                                                    *)
(***************************************************************************)
Periods == 2          \* --periods: horizon length T
MaxConfigs == 3       \* largest number of configuration rows used
MaxAmbulances == 2    \* largest --ambulances
MaxFreq == 2          \* largest max_config_frequency
MaxMove == 1          \* largest max_movement
MaxFlow == 1          \* window of the solver's values for a movement variable
MaxBases == 2         \* largest number of lines of a bases file
MaxSteps == 2         \* largest number of sizes of a sweep (--num-steps)

(***************************************************************************)
(* Zones and zone graphs.  A, B, C are the nodes of the graph; D is a      *)
(* coordinate that occurs in a configuration file but is no node of the    *)
(* graph.                                                                  *)
(***************************************************************************)
Zones == {"A", "B", "C"}
OffGraphZone == "D"

FullGraph == [i \in Zones |-> Zones \ {i}]
PathGraph == [i \in Zones |-> IF i = "B" THEN {"A", "C"} ELSE {"B"}]
Graphs == {FullGraph, PathGraph}

\* adjacency.get(zone, set())
AdjGet(adjacency, zone) ==
    IF zone \in DOMAIN adjacency THEN adjacency[zone] ELSE {}

\* Optional arguments: None, or a collection of zones
None == [none |-> TRUE, nodes |-> {}]
Some(S) == [none |-> FALSE, nodes |-> S]

(***************************************************************************)
(* Arithmetic helpers.                                                     *)
(***************************************************************************)
RECURSIVE SumOver(_, _)
\* gp.quicksum(f[e] for e in S)
SumOver(S, f) ==
    IF S = {} THEN 0
    ELSE LET e == CHOOSE e \in S : TRUE
         IN  f[e] + SumOver(S \ {e}, f)

SetMax(S) == CHOOSE v \in S : \A w \in S : w <= v
SetMin(S) == CHOOSE v \in S : \A w \in S : v <= w
Min2(a, b) == IF a <= b THEN a ELSE b

RECURSIVE Product(_, _)
\* the functions f on dom with f[k] \in S[k] for every k
Product(dom, S) ==
    IF dom = {} THEN {<<>>}
    ELSE LET k == CHOOSE k \in dom : TRUE
         IN  {(k :> v) @@ f : v \in S[k], f \in Product(dom \ {k}, S)}

(***************************************************************************)
(* Configurations: one zone per period, indexed 0..Periods-1.              *)
(***************************************************************************)
\* a trajectory that starts at a and is at b from period 1 on
Path(a, b) == [t \in 0..(Periods - 1) |-> IF t = 0 THEN a ELSE b]

\* rows of the configuration files (configs.csv) of the model; SwapRows
\* pools the configurations of the bases A and B
ScenarioRows == <<Path("A", "A"), Path("A", "B"), Path("A", "C")>>
MixedRows == <<Path("B", "B"), Path("A", "B"), Path("A", OffGraphZone),
               Path("C", "C")>>
SwapRows == <<Path("A", "B"), Path("B", "A"), Path("B", "B")>>
ConfigFiles == {ScenarioRows, MixedRows, SwapRows}

\* row k (0-based) of a configuration file of MaxConfigs rows
FileRow(rows, k) == rows[(k % Len(rows)) + 1]

\* df_full.head(num_configs) turned into the list configs
HeadConfigs(rows, num_configs) ==
    [c \in 0..(Min2(num_configs, MaxConfigs) - 1) |-> FileRow(rows, c)]

(***************************************************************************)
(* Coverage matrix (scripts/run_base_analysis.py, run_model_comparison.py).*)
(* The dict b is modelled by the set of its keys; every stored value is 1. *)
(***************************************************************************)
\* variant: coverage spreads over the neighbours of the neighbours as well
CoverageMatrix_TwoHop(cfgs, adjacency) ==
    UNION {{<<z, t, c>> :
               z \in {cfgs[c][t]} \cup AdjGet(adjacency, cfgs[c][t])
                       \cup UNION {AdjGet(adjacency, n) : n \in AdjGet(adjacency, cfgs[c][t])}}
           : c \in DOMAIN cfgs, t \in 0..(Periods - 1)}

\* variant: a configuration covers its own zone only
CoverageMatrix_SelfOnly(cfgs, adjacency) ==
    UNION {{<<z, t, c>> : z \in {cfgs[c][t]}}
           : c \in DOMAIN cfgs, t \in 0..(Periods - 1)}

CoverageMatrix(cfgs, adjacency) ==
    UNION {{<<z, t, c>> : z \in {cfgs[c][t]} \cup AdjGet(adjacency, cfgs[c][t])}
           : c \in DOMAIN cfgs, t \in 0..(Periods - 1)}

\* coverage_matrix.get((i, t, c), 0)
MatrixGet(b, i, t, c) == IF <<i, t, c>> \in b THEN 1 ELSE 0

\* quicksum(coverage_matrix.get((i,t,c),0) * w[c] for c in range(len(configs))
\*          for t in range(t_periods))
CoverageSum(b, w, i, t_periods) ==
    LET keys == (DOMAIN w) \X (0..(t_periods - 1))
    IN  SumOver(keys, [k \in keys |-> MatrixGet(b, i, k[2], k[1]) * w[k[1]]])

(***************************************************************************)
(* The record of a built solver model: the data of the constraints that    *)
(* build_model added.                                                      *)
(***************************************************************************)
NotBuilt ==
    [kind |-> "none", zones |-> {}, configs |-> <<>>, b |-> {},
     num_ambulances |-> 0, t_periods |-> 0, max_config_frequency |-> 0,
     base_constr |-> FALSE, excluded |-> {}, adjacency |-> <<>>,
     max_movement |-> 0, nonbase |-> {}]

\* an assignment of the solver's variables; unused families are empty
NoSol == [found |-> FALSE, lam |-> <<>>, Z |-> <<>>, q |-> <<>>, x |-> <<>>,
          m |-> <<>>, y |-> <<>>, z |-> 0]

\* valid_configs of build_model: indices of the configurations whose
\* period-0 zone is one of the base nodes
ValidConfigs(cfgs, base_nodes) ==
    {c \in DOMAIN cfgs : cfgs[c][0] \in base_nodes.nodes}

(***************************************************************************)
(* BaseModel.build_model                                                   *)
(***************************************************************************)
BaseBuilt(zones, cfgs, coverage_matrix, num_ambulances, t_periods, base_nodes) ==
    LET valid_configs == ValidConfigs(cfgs, base_nodes)
    IN  [NotBuilt EXCEPT
           !.kind = "base", !.zones = zones, !.configs = cfgs,
           !.b = coverage_matrix, !.num_ambulances = num_ambulances,
           !.t_periods = t_periods,
           !.base_constr = (~base_nodes.none /\ valid_configs # {}),
           !.excluded = (DOMAIN cfgs) \ valid_configs]

\* "all_bases_constraint"
BaseAllBasesConstraint(M, lam) ==
    M.base_constr => SumOver(M.excluded, lam) = 0

\* variant: at most num_ambulances configurations are selected
BaseAmbulanceCount_AtMost(M, lam) ==
    SumOver(DOMAIN M.configs, lam) <= M.num_ambulances

\* "ambulance_count"
BaseAmbulanceCount(M, lam) ==
    SumOver(DOMAIN M.configs, lam) = M.num_ambulances

\* variant: the coverage of period 0 only
BaseCoverage_FirstPeriod(M, lam, i, v) ==
    v = CoverageSum(M.b, lam, i, 1)

\* "coverage_i": y[i] = v
BaseCoverage(M, lam, i, v) ==
    v = CoverageSum(M.b, lam, i, M.t_periods)

\* "fair_i_j" for all i, j
BaseFair(M, y, z) ==
    \A i \in M.zones : \A j \in M.zones : z >= y[i] - y[j]

\* windows of the solver's integer variables (lower bound 0 is Gurobi's
\* default; the upper ends bound the model)
YWindow(M, mult) == 0..(M.t_periods * Cardinality(DOMAIN M.configs) * mult)
ZWindow(M) == 0..(M.t_periods * M.num_ambulances + 1)

\* the assignments (lam, y, z) that satisfy every constraint of a base model
BaseFeasible(M) ==
    LET lams == {lam \in [DOMAIN M.configs -> {0, 1}] :
                    BaseAllBasesConstraint(M, lam) /\ BaseAmbulanceCount(M, lam)}
        ys(lam) == Product(M.zones,
                      [i \in M.zones |-> {v \in YWindow(M, 1) : BaseCoverage(M, lam, i, v)}])
    IN  UNION {UNION {{[NoSol EXCEPT !.found = TRUE, !.lam = lam, !.y = y, !.z = z]
                         : z \in {w \in ZWindow(M) : BaseFair(M, y, w)}}
                      : y \in ys(lam)}
               : lam \in lams}

(***************************************************************************)
(* BinaryModel.build_model                                                 *)
(***************************************************************************)
BinaryBuilt(zones, cfgs, coverage_matrix, num_ambulances, t_periods, max_config_frequency, base_nodes) ==
    LET valid_configs == ValidConfigs(cfgs, base_nodes)
    IN  [NotBuilt EXCEPT
           !.kind = "binary", !.zones = zones, !.configs = cfgs,
           !.b = coverage_matrix, !.num_ambulances = num_ambulances,
           !.t_periods = t_periods,
           !.max_config_frequency = max_config_frequency,
           !.base_constr = (~base_nodes.none /\ valid_configs # {}),
           !.excluded = (DOMAIN cfgs) \ valid_configs]

\* range(max_config_frequency + 1)
FreqRange(M) == 0..M.max_config_frequency

\* variant: the constraint sums the valid configurations
BinBaseOnlyConstraint_Valid(M, q) ==
    M.base_constr => SumOver((DOMAIN M.configs) \ M.excluded, q) = 0

\* "base_only_constraint"
BinBaseOnlyConstraint(M, q) ==
    M.base_constr => SumOver(M.excluded, q) = 0

\* "one_hot_c": Zc is the row Z[c, .]
BinOneHot(M, Zc) ==
    SumOver(FreqRange(M), Zc) = 1

\* variant: the indicators are summed without their weight k
BinLinkQ_Unweighted(M, Zc, v) ==
    v = SumOver(FreqRange(M), Zc)

\* "link_q_c": q[c] = v
BinLinkQ(M, Zc, v) ==
    v = SumOver(FreqRange(M), [k \in FreqRange(M) |-> k * Zc[k]])

\* variant: the fleet size is an upper bound only
BinAmbulanceCount_AtMost(M, q) ==
    SumOver(DOMAIN M.configs, q) <= M.num_ambulances

\* "ambulance_count_binarized"
BinAmbulanceCount(M, q) ==
    SumOver(DOMAIN M.configs, q) = M.num_ambulances

\* "coverage_binarized_i": y[i] = v
BinCoverage(M, q, i, v) ==
    v = CoverageSum(M.b, q, i, M.t_periods)

\* "fair_binarized_i_j" for all i, j
BinFair(M, y, z) ==
    \A i \in M.zones : \A j \in M.zones : z >= y[i] - y[j]

\* window of the solver's values for q[c]
QWindow(M) == 0..(M.max_config_frequency + 1)

\* the assignments (Z, q, y, z) that satisfy every constraint of a binary model
BinFeasible(M) ==
    LET rows == {r \in [Z : [FreqRange(M) -> {0, 1}], q : QWindow(M)] :
                    BinOneHot(M, r.Z) /\ BinLinkQ(M, r.Z, r.q)}
        zqs == {f \in Product(DOMAIN M.configs, [c \in DOMAIN M.configs |-> rows]) :
                    LET q == [c \in DOMAIN M.configs |-> f[c].q]
                    IN  BinBaseOnlyConstraint(M, q) /\ BinAmbulanceCount(M, q)}
        ys(q) == Product(M.zones,
                    [i \in M.zones |->
                       {v \in YWindow(M, M.max_config_frequency) : BinCoverage(M, q, i, v)}])
    IN  UNION {LET Z == [c \in DOMAIN M.configs |-> f[c].Z]
                   q == [c \in DOMAIN M.configs |-> f[c].q]
               IN  UNION {{[NoSol EXCEPT !.found = TRUE, !.Z = Z, !.q = q,
                                         !.y = y, !.z = z]
                             : z \in {w \in ZWindow(M) : BinFair(M, y, w)}}
                          : y \in ys(q)}
               : f \in zqs}

(***************************************************************************)
(* ConsistencyModel.build_model                                            *)
(***************************************************************************)
\* the coverage matrix b that build_model computes itself
ConsCoverageMatrix(cfgs, adjacency) ==
    UNION {{<<z_loc, t, c_idx>> :
               z_loc \in {cfgs[c_idx][t]} \cup AdjGet(adjacency, cfgs[c_idx][t])}
           : c_idx \in DOMAIN cfgs, t \in 0..(Periods - 1)}

ConsistencyBuilt(zones, cfgs, adjacency, num_ambulances, t_periods, max_config_frequency, max_movement, base_coords) ==
    [NotBuilt EXCEPT
       !.kind = "consistency", !.zones = zones, !.configs = cfgs,
       !.adjacency = adjacency, !.num_ambulances = num_ambulances,
       !.t_periods = t_periods,
       !.max_config_frequency = max_config_frequency,
       !.max_movement = max_movement,
       \* "if base_coords:" is false for None and for an empty list
       !.nonbase = IF base_coords.none \/ base_coords.nodes = {} THEN {}
                   ELSE zones \ base_coords.nodes,
       !.b = ConsCoverageMatrix(cfgs, adjacency)]

\* variant: a movement variable for every pair of zones
MKeysAt_AllPairs(M, t) ==
    M.zones \X M.zones \X {t}

\* keys of the movement variables m of period t
MKeysAt(M, t) ==
    {k \in M.zones \X M.zones \X {t} :
        k[1] = k[2] \/ k[2] \in AdjGet(M.adjacency, k[1])}

\* keys of the dict m
MKeys(M) == UNION {MKeysAt(M, t) : t \in 0..(M.t_periods - 2)}

\* variant: the period-0 restriction is never added
ConsNoAmbulanceAtNonbase_Off(M, i, t, v) ==
    TRUE

\* variant: the restriction is put on the last period
ConsNoAmbulanceAtNonbase_LastPeriod(M, i, t, v) ==
    (t = M.t_periods - 1 /\ i \in M.nonbase) => v = 0

\* "no_ambulance_at_nonbase_i_0": x[i, t] = v
ConsNoAmbulanceAtNonbase(M, i, t, v) ==
    (t = 0 /\ i \in M.nonbase) => v = 0

\* "one_hot_c"
ConsOneHot(M, Zc) ==
    SumOver(FreqRange(M), Zc) = 1

\* "link_q_c": q[c] = v
ConsLinkQ(M, Zc, v) ==
    v = SumOver(FreqRange(M), [k \in FreqRange(M) |-> k * Zc[k]])

\* variant: the fleet size is an upper bound only
ConsAmbulanceCount_AtMost(M, q) ==
    SumOver(DOMAIN M.configs, q) <= M.num_ambulances

\* "ambulance_count"
ConsAmbulanceCount(M, q) ==
    SumOver(DOMAIN M.configs, q) = M.num_ambulances

\* variant: the configurations are counted at their first position
ConsOccupancy_FirstPeriod(M, q, i, t, v) ==
    LET contributions == {c \in DOMAIN M.configs : M.configs[c][0] = i}
    IN  IF contributions # {} THEN v = SumOver(contributions, q) ELSE v = 0

\* "ambulance_count_i_t": x[i, t] = v
ConsOccupancy(M, q, i, t, v) ==
    LET contributions == {c \in DOMAIN M.configs : M.configs[c][t] = i}
    IN  IF contributions # {} THEN v = SumOver(contributions, q) ELSE v = 0

\* variant: arrivals and departures exchanged
ConsFlowConservation_Swapped(M, x, m, i, t) ==
    LET out == {j \in M.zones : <<i, j, t>> \in DOMAIN m}
        inc == {j \in M.zones : <<j, i, t>> \in DOMAIN m}
        leaving == SumOver(out, [j \in out |-> m[<<i, j, t>>]])
        arriving == SumOver(inc, [j \in inc |-> m[<<j, i, t>>]])
    IN  x[<<i, t>>] + leaving - arriving = x[<<i, t + 1>>]

\* "flow_conservation_i_t"
ConsFlowConservation(M, x, m, i, t) ==
    LET out == {j \in M.zones : <<i, j, t>> \in DOMAIN m}
        inc == {j \in M.zones : <<j, i, t>> \in DOMAIN m}
        leaving == SumOver(out, [j \in out |-> m[<<i, j, t>>]])
        arriving == SumOver(inc, [j \in inc |-> m[<<j, i, t>>]])
    IN  x[<<i, t>>] + arriving - leaving = x[<<i, t + 1>>]

\* variant: the budget is charged to the self-loops instead of the moves
ConsMaxMovement_SelfLoops(M, m, t) ==
    LET moves == {k \in DOMAIN m : k[3] = t /\ k[1] = k[2]}
    IN  SumOver(moves, m) <= M.max_movement

\* variant: the budget is one unit too generous
ConsMaxMovement_Slack(M, m, t) ==
    LET moves == {k \in DOMAIN m : k[3] = t /\ k[1] # k[2]}
    IN  SumOver(moves, m) <= M.max_movement + 1

\* "max_movement_t"
ConsMaxMovement(M, m, t) ==
    LET moves == {k \in DOMAIN m : k[3] = t /\ k[1] # k[2]}
    IN  SumOver(moves, m) <= M.max_movement

\* "adjacent_i_j_t" for all i, j
ConsAdjacent(M, m, t) ==
    \A i \in M.zones : \A j \in M.zones :
       (i # j /\ j \notin AdjGet(M.adjacency, i) /\ <<i, j, t>> \in DOMAIN m)
          => m[<<i, j, t>>] = 0

\* "coverage_i": y[i] = v
ConsCoverage(M, q, i, v) ==
    v = CoverageSum(M.b, q, i, M.t_periods)

\* "fair_i_j" for all i, j
ConsFair(M, y, z) ==
    \A i \in M.zones : \A j \in M.zones : z >= y[i] - y[j]

\* window of the solver's values for x[i, t]
XWindow(M) == 0..(M.num_ambulances + 1)

\* the movement assignments of period t that satisfy the constraints of
\* period t; the movement budget, which reads the variables with i # j only,
\* is applied to those first
ConsMovements(M, x, t) ==
    LET offKeys == {k \in MKeysAt(M, t) : k[1] # k[2]}
        diagKeys == MKeysAt(M, t) \ offKeys
        offs == {o \in [offKeys -> 0..MaxFlow] : ConsMaxMovement(M, o, t)}
    IN  {m \in {o @@ d : o \in offs, d \in [diagKeys -> 0..MaxFlow]} :
            /\ \A i \in M.zones : ConsFlowConservation(M, x, m, i, t)
            /\ ConsMaxMovement(M, m, t)
            /\ ConsAdjacent(M, m, t)}

RECURSIVE ConsMovementsUpTo(_, _, _)
\* the movement assignments of periods 0..t-1
ConsMovementsUpTo(M, x, t) ==
    IF t <= 0 THEN {<<>>}
    ELSE {m1 @@ m2 : m1 \in ConsMovementsUpTo(M, x, t - 1),
                     m2 \in ConsMovements(M, x, t - 1)}

\* the assignments (Z, q, x, m, y, z) that satisfy every constraint of a
\* consistency model
ConsFeasible(M) ==
    LET rows == {r \in [Z : [FreqRange(M) -> {0, 1}], q : QWindow(M)] :
                    ConsOneHot(M, r.Z) /\ ConsLinkQ(M, r.Z, r.q)}
        zqs == {f \in Product(DOMAIN M.configs, [c \in DOMAIN M.configs |-> rows]) :
                    ConsAmbulanceCount(M, [c \in DOMAIN M.configs |-> f[c].q])}
        xKeys == M.zones \X (0..(M.t_periods - 1))
        xs(q) == Product(xKeys,
                    [k \in xKeys |->
                       {v \in XWindow(M) : /\ ConsNoAmbulanceAtNonbase(M, k[1], k[2], v)
                                           /\ ConsOccupancy(M, q, k[1], k[2], v)}])
        ys(q) == Product(M.zones,
                    [i \in M.zones |->
                       {v \in YWindow(M, M.max_config_frequency) : ConsCoverage(M, q, i, v)}])
    IN  UNION {LET Z == [c \in DOMAIN M.configs |-> f[c].Z]
                   q == [c \in DOMAIN M.configs |-> f[c].q]
               IN  UNION {UNION {UNION {{[NoSol EXCEPT !.found = TRUE, !.Z = Z, !.q = q,
                                                 !.x = x, !.m = m, !.y = y, !.z = z]
                                           : z \in {w \in ZWindow(M) : ConsFair(M, y, w)}}
                                        : y \in ys(q)}
                                 : m \in ConsMovementsUpTo(M, x, M.t_periods - 1)}
                          : x \in xs(q)}
               : f \in zqs}

Feasible(M) ==
    CASE M.kind = "base" -> BaseFeasible(M)
      [] M.kind = "binary" -> BinFeasible(M)
      [] M.kind = "consistency" -> ConsFeasible(M)
      [] OTHER -> {}

(***************************************************************************)
(* The run of a script with one model object.                              *)
(***************************************************************************)
Classes == {"BaseModel", "BinaryModel", "ConsistencyModel"}

\* the scripts that drive a model object, and the classes each one creates
Scripts == {"run_base_analysis", "run_model_comparison", "run_consistency"}

ScriptsOf(class) ==
    CASE class = "BaseModel" -> {"run_base_analysis", "run_model_comparison"}
      [] class = "BinaryModel" -> {"run_model_comparison"}
      [] OTHER -> {"run_consistency"}

\* the methods of DataLoader
LoaderMethods == {"load_graph", "load_bases", "load_configurations", "clean_coord"}

\* the DataLoader method that the script calls for the base stations
BasesLoader(script) ==
    IF script = "run_base_analysis" THEN "load_all_bases" ELSE "load_bases"

\* the attribute lookup of the call raises AttributeError; it is made
\* outside any try block exactly when the method is load_all_bases
LoaderRaises(script) ==
    BasesLoader(script) \notin LoaderMethods

NumBaseSlots == 5     \* "for base_idx in range(5)"

\* the bases of a run: none passed (build_model's default None), a .bases
\* file whose load raises, or the lines of a .bases file
NoBasesArg == [given |-> FALSE, ok |-> TRUE, lines |-> <<>>]
MissingBases == [given |-> TRUE, ok |-> FALSE, lines |-> <<>>]
BasesLines(lines) == [given |-> TRUE, ok |-> TRUE, lines |-> lines]
BasesInputs == {NoBasesArg, MissingBases, BasesLines(<<>>), BasesLines(<<"A">>)}

RECURSIVE AppendBases(_, _, _)
\* the iterations base_idx, base_idx + 1, ... of "for base_idx in range(5)"
\* over the lines that load_bases returns
AppendBases(lines, base_idx, acc) ==
    IF base_idx >= NumBaseSlots THEN acc
    ELSE AppendBases(lines, base_idx + 1,
                     IF base_idx < Len(lines) THEN Append(acc, lines[base_idx + 1])
                     ELSE acc)

\* the list all_base_nodes that the loop of the script builds
AllBaseNodesList(lines) ==
    AppendBases(lines, 0, <<>>)

\* "Load all base nodes": the list starts empty; every iteration whose
\* load_bases raises prints a warning and appends nothing
LoadAllBaseNodes(bases) ==
    IF ~bases.ok THEN Some({})
    ELSE LET nodes == AllBaseNodesList(bases.lines)
         IN  Some({nodes[k] : k \in 1..Len(nodes)})

\* the collection of base nodes that the script passes to build_model
BaseNodesOf(bases) ==
    IF ~bases.given THEN None ELSE LoadAllBaseNodes(bases)

\* the collections of base nodes a script can pass
BaseNodeChoices == {BaseNodesOf(bases) : bases \in BasesInputs}

ArgChoices ==
    {[script |-> script, graph |-> graph, rows |-> rows,
      ambulances |-> ambulances,
      bases |-> bases, base_nodes |-> BaseNodesOf(bases)] :
        script \in Scripts, graph \in Graphs, rows \in ConfigFiles,
        ambulances \in 0..MaxAmbulances, bases \in BasesInputs}

\* an optional number: None, or a value
NoValue == [none |-> TRUE, value |-> 0]
Value(v) == [none |-> FALSE, value |-> v]

\* no row of the results list
NoRow ==
    [written |-> FALSE, has_status |-> FALSE, status |-> "NONE",
     fairness_gap |-> NoValue, solution_found |-> FALSE]

\* run_base_analysis.py: the row appended to results after a solve
AnalysisRow(st, a) ==
    [written |-> TRUE, has_status |-> TRUE, status |-> st,
     fairness_gap |-> IF st = "OPTIMAL" THEN Value(a.z) ELSE Value(-1),
     solution_found |-> (st = "OPTIMAL")]

\* run_model_comparison.py: the row appended to scaling_results; it has the
\* objective column and no status column
ComparisonRow(st, a) ==
    [written |-> TRUE, has_status |-> FALSE, status |-> "NONE",
     fairness_gap |-> IF st = "OPTIMAL" THEN Value(a.z) ELSE Value(-1),
     solution_found |-> FALSE]

\* the row that the script records; run_consistency.py keeps no results
\* list
ScriptRow(script, st, a) ==
    CASE script = "run_base_analysis" -> AnalysisRow(st, a)
      [] script = "run_model_comparison" -> ComparisonRow(st, a)
      [] OTHER -> NoRow

\* BaseModel.save_results: the dict written to the result file
SaveResults(st, a) ==
    [status |-> st,
     objective |-> IF st = "OPTIMAL" THEN Value(a.z) ELSE NoValue]

\* variant: the earlier model is not disposed
DisposeModel_Skip(n) ==
    n

\* "if self.model: self.model.dispose()": the number of live solver models
\* of the object afterwards
DisposeModel(n) ==
    IF n > 0 THEN n - 1 ELSE n

\* "self.model = gp.Model(env=self.env)"
NewModel(n) ==
    n + 1

\* the calls on the solver library of each step, in the order of the code
AcquireCalls == <<"gp.Env", "gp.Model">>
BuildCalls == <<"build_model", "setParam">>
SolveCalls == <<"optimize", "read">>

\* variant: the environment is disposed first
CleanupCalls_EnvFirst ==
    <<"env.dispose", "model.dispose">>

\* BaseModel.cleanup: "self.model.dispose()" then "self.env.dispose()"
CleanupCalls ==
    <<"model.dispose", "env.dispose">>

PgIdle ==
    /\ pg_args = [graph |-> FullGraph, bases |-> <<>>]
    /\ pg_idx = 0
    /\ all_base_nodes = <<>>
    /\ configs = <<>>
    /\ pg_pc = "idle"

\* the script's argument parsing, with the files its data loading reads
Init ==
    /\ cls \in Classes
    /\ args \in ArgChoices
    /\ args.script \in ScriptsOf(cls)
    /\ env = "None"
    /\ live = 0
    /\ built = NotBuilt
    /\ status = "NONE"
    /\ sol = NoSol
    /\ pc = "start"
    /\ num_rows = 0
    /\ last_row = NoRow
    /\ calls = <<>>
    /\ PgIdle

\* "all_base_nodes = loader.load_all_bases(...)" of run_base_analysis.py:
\* the call raises before the model object is created, the script ends
LoadAllBases ==
    /\ pc = "start"
    /\ LoaderRaises(args.script)
    /\ pc' = "aborted"
    /\ UNCHANGED <<cls, args, env, live, built, status, sol, num_rows, last_row,
                   calls>>
    /\ UNCHANGED pgVars

\* the data is loaded, then BaseModel.__init__ and
\* BaseModel.initialize_environment
InitializeEnvironment ==
    /\ pc = "start"
    /\ ~LoaderRaises(args.script)
    /\ env' = "live"
    /\ live' = NewModel(live)
    /\ built' = NotBuilt
    /\ status' = "LOADED"
    /\ pc' = "ready"
    /\ calls' = AcquireCalls
    /\ UNCHANGED <<cls, args, sol, num_rows, last_row>>
    /\ UNCHANGED pgVars

\* one step of the sweep of run_model_comparison.py for the original model
\* (the sweep of run_base_analysis.py has the same steps): take the first
\* num_configs rows, build the coverage matrix, build_model
BaseBuildModel ==
    /\ cls = "BaseModel"
    /\ pc \in {"ready", "solved"}
    /\ num_rows < MaxSteps
    /\ \E num_configs \in 0..MaxConfigs :
         LET cfgs == HeadConfigs(args.rows, num_configs)
             b == CoverageMatrix(cfgs, args.graph)
         IN  built' = BaseBuilt(Zones, cfgs, b, args.ambulances, Periods,
                                args.base_nodes)
    /\ live' = NewModel(DisposeModel(live))
    /\ status' = "LOADED"
    /\ sol' = NoSol
    /\ pc' = "built"
    /\ last_row' = NoRow
    /\ calls' = BuildCalls
    /\ UNCHANGED <<cls, args, env, num_rows>>
    /\ UNCHANGED pgVars

\* one comparison of run_model_comparison.py for the binary model:
\* the same rows and coverage matrix, with one of the frequency bounds
BinaryBuildModel ==
    /\ cls = "BinaryModel"
    /\ pc \in {"ready", "solved"}
    /\ num_rows < MaxSteps
    /\ \E num_configs \in 0..MaxConfigs, freq_bound \in 0..MaxFreq :
         LET cfgs == HeadConfigs(args.rows, num_configs)
             b == CoverageMatrix(cfgs, args.graph)
         IN  built' = BinaryBuilt(Zones, cfgs, b, args.ambulances, Periods,
                                  freq_bound, args.base_nodes)
    /\ live' = NewModel(DisposeModel(live))
    /\ status' = "LOADED"
    /\ sol' = NoSol
    /\ pc' = "built"
    /\ last_row' = NoRow
    /\ calls' = BuildCalls
    /\ UNCHANGED <<cls, args, env, num_rows>>
    /\ UNCHANGED pgVars

\* run_consistency.py: the first num_configs rows, then build_model; the
\* script builds and solves one model
ConsistencyBuildModel ==
    /\ cls = "ConsistencyModel"
    /\ pc = "ready"
    /\ \E num_configs \in 0..MaxConfigs, max_freq \in 0..MaxFreq,
          max_movement \in 0..MaxMove :
         built' = ConsistencyBuilt(Zones, HeadConfigs(args.rows, num_configs),
                                   args.graph, args.ambulances, Periods,
                                   max_freq, max_movement, args.base_nodes)
    /\ live' = NewModel(DisposeModel(live))
    /\ status' = "LOADED"
    /\ sol' = NoSol
    /\ pc' = "built"
    /\ last_row' = NoRow
    /\ calls' = BuildCalls
    /\ UNCHANGED <<cls, args, env, num_rows>>
    /\ UNCHANGED pgVars

\* least objective among the feasible assignments
BestObjective(F) == SetMin({a.z : a \in F})

\* model.optimize(): the solver's possible outcomes; the script then
\* appends the row of this solve to its results list
Optimize ==
    /\ pc = "built"
    /\ \E F \in {Feasible(built)} :
         \/ /\ F = {}
            /\ status' = "INFEASIBLE"
            /\ sol' = NoSol
         \/ /\ F # {}
            /\ \E best \in {BestObjective(F)} :
                 \E a \in {a2 \in F : a2.z = best} :
                    /\ status' = "OPTIMAL"
                    /\ sol' = a
         \/ \E a \in F :
              /\ status' = "TIME_LIMIT"
              /\ sol' = a
         \/ /\ status' = "TIME_LIMIT"
            /\ sol' = NoSol
    /\ pc' = "solved"
    /\ last_row' = ScriptRow(args.script, status', sol')
    /\ num_rows' = IF last_row'.written THEN num_rows + 1 ELSE num_rows
    /\ calls' = SolveCalls
    /\ UNCHANGED <<cls, args, env, live, built>>
    /\ UNCHANGED pgVars

\* BaseModel.cleanup
Cleanup ==
    /\ pc \in {"ready", "solved"}
    /\ live' = DisposeModel(live)
    /\ env' = "disposed"
    /\ pc' = "done"
    /\ calls' = CleanupCalls
    /\ UNCHANGED <<cls, args, built, status, sol, num_rows, last_row>>
    /\ UNCHANGED pgVars

\* build_model or optimize raises (a GurobiError, a KeyError of a
\* configuration row): main has no try/finally, the exception leaves the
\* script and cleanup is not reached
RaiseError ==
    /\ pc \in {"ready", "built"}
    /\ pc' = "failed"
    /\ UNCHANGED <<cls, args, env, live, built, status, sol, num_rows, last_row,
                   calls>>
    /\ UNCHANGED pgVars

Next ==
    \/ LoadAllBases
    \/ InitializeEnvironment
    \/ BaseBuildModel
    \/ BinaryBuildModel
    \/ ConsistencyBuildModel
    \/ Optimize
    \/ Cleanup
    \/ RaiseError

Spec == Init /\ [][Next]_vars

\* a run with a BaseModel object (run_base_analysis.py, and the original
\* model of run_model_comparison.py)
InitBase == Init /\ cls = "BaseModel"
NextBase ==
    \/ LoadAllBases
    \/ InitializeEnvironment
    \/ BaseBuildModel
    \/ Optimize
    \/ Cleanup
    \/ RaiseError
SpecBase == InitBase /\ [][NextBase]_vars

\* a run with a BinaryModel object (run_model_comparison.py)
InitBinary == Init /\ cls = "BinaryModel"
NextBinary ==
    \/ InitializeEnvironment
    \/ BinaryBuildModel
    \/ Optimize
    \/ Cleanup
    \/ RaiseError
SpecBinary == InitBinary /\ [][NextBinary]_vars

\* a run with a ConsistencyModel object (run_consistency.py)
InitConsistency == Init /\ cls = "ConsistencyModel"
NextConsistency ==
    \/ InitializeEnvironment
    \/ ConsistencyBuildModel
    \/ Optimize
    \/ Cleanup
    \/ RaiseError
SpecConsistency == InitConsistency /\ [][NextConsistency]_vars

(***************************************************************************)
(* PathGenerator (src/data_processing/path_generator.py).                  *)
(***************************************************************************)
RECURSIVE SeqsUpTo(_, _)
\* the sequences over S of length at most n
SeqsUpTo(S, n) ==
    IF n = 0 THEN {<<>>}
    ELSE LET shorter == SeqsUpTo(S, n - 1)
         IN  shorter \cup {Append(q, e) : q \in {r \in shorter : Len(r) = n - 1}, e \in S}

\* a .bases file with one line more than the scripts have base slots
LongBasesFile == <<"A", "B", "C", "D", "E", "F">>

\* the contents of a .bases file: one zone per line
BasesFiles == SeqsUpTo(Zones, MaxBases) \cup {LongBasesFile}

\* PathGenerator.load_base: the base of that index, or None
LoadBase(base_nodes, base_idx) ==
    IF base_idx < Len(base_nodes) THEN Some({base_nodes[base_idx + 1]}) ELSE None

\* PathGenerator.generate_base_paths: "paths = []; return paths"
GenerateBasePaths(G, base, periods) == <<>>

ModelIdle ==
    /\ cls = "BaseModel"
    /\ args = [script |-> "run_model_comparison", graph |-> FullGraph,
               rows |-> ScenarioRows, ambulances |-> 0,
               bases |-> NoBasesArg, base_nodes |-> None]
    /\ env = "None"
    /\ live = 0
    /\ built = NotBuilt
    /\ status = "NONE"
    /\ sol = NoSol
    /\ pc = "start"
    /\ num_rows = 0
    /\ last_row = NoRow
    /\ calls = <<>>

\* generate_paths_all_bases is entered: the graph is loaded, both lists empty
PgInit ==
    /\ ModelIdle
    /\ pg_args \in [graph : Graphs, bases : BasesFiles]
    /\ pg_idx = 0
    /\ all_base_nodes = <<>>
    /\ configs = <<>>
    /\ pg_pc = "load_bases"

\* one iteration of "for base_idx in range(5)"
PgLoadBase ==
    /\ pg_pc = "load_bases"
    /\ pg_idx < NumBaseSlots
    /\ LET base_node == LoadBase(pg_args.bases, pg_idx)
       IN  all_base_nodes' = IF ~base_node.none
                             THEN Append(all_base_nodes, pg_args.bases[pg_idx + 1])
                             ELSE all_base_nodes
    /\ pg_idx' = pg_idx + 1
    /\ UNCHANGED <<pg_args, configs, pg_pc>>
    /\ UNCHANGED modelVars

\* the loop over the base slots ends; the generation loop starts
PgBasesLoaded ==
    /\ pg_pc = "load_bases"
    /\ pg_idx = NumBaseSlots
    /\ pg_idx' = 0
    /\ pg_pc' = "generate"
    /\ UNCHANGED <<pg_args, all_base_nodes, configs>>
    /\ UNCHANGED modelVars

\* one iteration of "for base in all_base_nodes"
PgGenerate ==
    /\ pg_pc = "generate"
    /\ pg_idx < Len(all_base_nodes)
    /\ LET base_configs == GenerateBasePaths(pg_args.graph,
                                             all_base_nodes[pg_idx + 1], Periods)
       IN  configs' = configs \o base_configs
    /\ pg_idx' = pg_idx + 1
    /\ UNCHANGED <<pg_args, all_base_nodes, pg_pc>>
    /\ UNCHANGED modelVars

\* the configurations are written to configs.csv
PgSave ==
    /\ pg_pc = "generate"
    /\ pg_idx = Len(all_base_nodes)
    /\ pg_pc' = "saved"
    /\ UNCHANGED <<pg_args, pg_idx, all_base_nodes, configs>>
    /\ UNCHANGED modelVars

PgNext ==
    \/ PgLoadBase
    \/ PgBasesLoaded
    \/ PgGenerate
    \/ PgSave

SpecPaths == PgInit /\ [][PgNext]_vars

(***************************************************************************)
(* Properties.                                                             *)
(***************************************************************************)
\* number of configurations of the built model
NumConfigs == Cardinality(DOMAIN built.configs)

\* the multiplier of configuration c in the current assignment:
\* selection[c] of the base model, frequency[c] of the other two
Multiplier(c) == IF built.kind = "base" THEN sol.lam[c] ELSE sol.q[c]

\* the zones adjacent to zone in the graph of the run
Neighbours(zone) == IF zone \in Zones THEN args.graph[zone] ELSE {}

\* number of periods in which configuration c is at zone i or next to it
Footprint(c, i) ==
    Cardinality({t \in 0..(Periods - 1) :
                    i = built.configs[c][t] \/ i \in Neighbours(built.configs[c][t])})

\* cumulative coverage of zone i by the current assignment
CoverageOf(i) ==
    SumOver(DOMAIN built.configs,
            [c \in DOMAIN built.configs |-> Multiplier(c) * Footprint(c, i)])

\* largest pairwise coverage difference of the current assignment
CoverageSpread ==
    LET cov == {CoverageOf(i) : i \in Zones}
    IN  SetMax(cov) - SetMin(cov)

\* C1: in every feasible assignment of any of the three formulations the
\* multipliers (selection[c] or frequency[c]) of all configurations add up
\* to num_ambulances exactly.
C1_CountExact ==
    sol.found =>
       SumOver(DOMAIN built.configs,
               [c \in DOMAIN built.configs |-> Multiplier(c)]) = built.num_ambulances

C1_Witness ==
    /\ sol.found
    /\ built.kind = "base"
    /\ built.num_ambulances = 2
    /\ NumConfigs = 3

\* C2: in every feasible assignment of the base formulation coverage[i] is
\* the coverage summed over the selected configurations and the periods,
\* fairness_gap >= coverage[i] - coverage[j] for every ordered pair, and the
\* least fairness_gap admissible with the same selection is
\* max coverage - min coverage.
C2_FairnessGap ==
    (sol.found /\ built.kind = "base") =>
       /\ \A i \in Zones : sol.y[i] = CoverageOf(i)
       /\ \A i \in Zones : \A j \in Zones : sol.z >= CoverageOf(i) - CoverageOf(j)
       /\ sol.z >= CoverageSpread
       /\ [sol EXCEPT !.z = CoverageSpread] \in Feasible(built)

C2_Witness ==
    /\ sol.found
    /\ built.kind = "base"
    /\ CoverageSpread > 0
    /\ sol.z > CoverageSpread

\* C3: in every feasible assignment of the frequency-bounded formulation
\* each configuration c has exactly one k in 0..max_config_frequency with
\* indicator[c,k] = 1, and frequency[c] is that k.
C3_OneHot ==
    (sol.found /\ built.kind = "binary") =>
       \A c \in DOMAIN built.configs :
          \E k \in 0..built.max_config_frequency :
             /\ sol.Z[c][k] = 1
             /\ \A k2 \in (0..built.max_config_frequency) \ {k} : sol.Z[c][k2] = 0
             /\ sol.q[c] = k

C3_Witness ==
    /\ sol.found
    /\ built.kind = "binary"
    /\ \E c \in DOMAIN built.configs : sol.q[c] = 2

\* movement[i,j,t] of the current assignment; 0 where no variable exists
Movement(i, j, t) ==
    IF <<i, j, t>> \in DOMAIN sol.m THEN sol.m[<<i, j, t>>] ELSE 0

\* C4: in every feasible assignment of the consistency formulation, for
\* every zone i and period t < T-1,
\* occupancy[i,t] + arrivals - departures = occupancy[i,t+1].
C4_FlowConservation ==
    (sol.found /\ built.kind = "consistency") =>
       \A i \in Zones : \A t \in 0..(Periods - 2) :
          sol.x[<<i, t>>]
            + SumOver(Zones, [j \in Zones |-> Movement(j, i, t)])
            - SumOver(Zones, [j \in Zones |-> Movement(i, j, t)])
          = sol.x[<<i, t + 1>>]

C4_Witness ==
    /\ sol.found
    /\ built.kind = "consistency"
    /\ \E i \in Zones : \E j \in Zones \ {i} : Movement(i, j, 0) = 1

\* b has an entry (zone, t, c) exactly when the zone is the zone of
\* configuration c of the built model at period t or adjacent to it
OneHopCoverage(b) ==
    /\ \A k \in b : k[3] \in DOMAIN built.configs /\ k[2] \in 0..(Periods - 1)
    /\ \A c \in DOMAIN built.configs : \A t \in 0..(Periods - 1) :
          \A zone \in Zones \cup {OffGraphZone} :
             (<<zone, t, c>> \in b) <=>
                (zone = built.configs[c][t] \/ zone \in Neighbours(built.configs[c][t]))

\* C5: the coverage matrix has an entry (zone, t, c) exactly when the zone
\* is configuration c's zone at period t or a direct neighbour of it, both
\* as the scripts build it for build_model and as ConsistencyModel builds
\* it from the same configurations and adjacency.
C5_CoverageMatrix ==
    built.kind # "none" =>
       /\ OneHopCoverage(built.b)
       /\ OneHopCoverage(ConsCoverageMatrix(built.configs, args.graph))

\* a configuration at A on the path graph A - B - C covers B and not C
C5_Witness ==
    /\ built.kind # "none"
    /\ args.graph = PathGraph
    /\ \E c \in DOMAIN built.configs :
          /\ built.configs[c][0] = "A"
          /\ <<"B", 0, c>> \in built.b
          /\ <<"C", 0, c>> \notin built.b

\* the configurations of the mobility rule rooted at base: at the base a
\* unit stays or moves to an adjacent zone, away from it the unit is frozen
FeasibleFrom(G, base) ==
    {p \in [0..(Periods - 1) -> Zones] :
        /\ p[0] = base
        /\ \A t \in 0..(Periods - 2) :
              IF p[t] = base THEN p[t + 1] = p[t] \/ p[t + 1] \in G[p[t]]
              ELSE p[t + 1] = p[t]}

\* C6: generate_base_paths returns the exhaustive set of feasible
\* configurations rooted at the base; for the fully connected graph with the
\* single base A these are the stay at A and the moves to B and to C.
C6_Exhaustive ==
    pg_pc = "saved" =>
       /\ {configs[k] : k \in 1..Len(configs)}
            = UNION {FeasibleFrom(pg_args.graph, all_base_nodes[k])
                       : k \in 1..Len(all_base_nodes)}
       /\ (pg_args.graph = FullGraph /\ pg_args.bases = <<"A">> /\ Periods = 2) =>
             {configs[k] : k \in 1..Len(configs)}
                = {Path("A", "A"), Path("A", "B"), Path("A", "C")}

\* C8: with an explicit collection of base nodes, every feasible assignment
\* of the base or frequency-bounded formulation gives multiplier 0 to every
\* configuration whose period-0 zone is not one of them.
C8_BaseRestriction ==
    (sol.found /\ built.kind \in {"base", "binary"} /\ ~args.base_nodes.none) =>
       \A c \in DOMAIN built.configs :
          built.configs[c][0] \notin args.base_nodes.nodes => Multiplier(c) = 0

\* Scenario B: the fully connected graph, single base A, the three
\* configurations [A,A], [A,B], [A,C] and one ambulance, base formulation,
\* solved to optimality
ScenarioB ==
    /\ built.kind = "base"
    /\ args.graph = FullGraph
    /\ args.base_nodes = Some({"A"})
    /\ built.configs = HeadConfigs(ScenarioRows, 3)
    /\ built.num_ambulances = 1
    /\ status = "OPTIMAL"
    /\ sol.found

\* C9 as stated: in Scenario B the selection of [A,B] gives coverage
\* A = 2, B = 2, C = 1 and fairness_gap = 1.
C9_Original ==
    (ScenarioB /\ Periods = 2 /\ sol.lam[1] = 1) =>
       /\ sol.y = [i \in Zones |-> IF i = "C" THEN 1 ELSE 2]
       /\ sol.z = 1

\* C9 as amended: in Scenario B fairness_gap is the largest pairwise
\* coverage difference of the selected configuration's footprint; every
\* zone of the fully connected graph is covered in every period, so the
\* selection of [A,B] gives coverage T to A, B and C and fairness_gap = 0.
C9_ScenarioB ==
    ScenarioB =>
       /\ \E c \in DOMAIN built.configs :
             /\ sol.lam = [d \in DOMAIN built.configs |-> IF d = c THEN 1 ELSE 0]
             /\ sol.z = SetMax({Footprint(c, i) : i \in Zones})
                          - SetMin({Footprint(c, i) : i \in Zones})
       /\ sol.lam[1] = 1 =>
             /\ sol.y = [i \in Zones |-> Periods]
             /\ sol.z = 0

C9_Witness ==
    /\ ScenarioB
    /\ sol.lam[1] = 1

\* number of configurations the base restriction leaves available: all of
\* them when no base collection is passed or no configuration starts in it,
\* else those that start in it
Available ==
    LET starting == {c \in DOMAIN built.configs :
                        built.configs[c][0] \in args.base_nodes.nodes}
    IN  IF args.base_nodes.none \/ starting = {} THEN NumConfigs
        ELSE Cardinality(starting)

\* C10 as stated: the frequency-bounded constraint set is infeasible exactly
\* when n * max_config_frequency < num_ambulances, n the number of
\* configurations.
C10_Original ==
    (built.kind = "binary" /\ pc = "built") =>
       ((Feasible(built) = {}) <=>
           (NumConfigs * built.max_config_frequency < built.num_ambulances))

\* C10 as amended: the frequency-bounded constraint set is infeasible
\* exactly when a * max_config_frequency < num_ambulances, a the number of
\* configurations that the base restriction leaves available.
C10_Feasibility ==
    (built.kind = "binary" /\ pc = "built") =>
       ((Feasible(built) = {}) <=>
           (Available * built.max_config_frequency < built.num_ambulances))

\* Scenario C with a bound too small: two configurations, two ambulances
C10_Witness ==
    /\ built.kind = "binary"
    /\ pc = "built"
    /\ NumConfigs = 2
    /\ built.num_ambulances = 2
    /\ Feasible(built) = {}

\* C11 (Scenario D, part 1): in the consistency formulation with
\* max_movement = 0 every feasible assignment has
\* occupancy[i,t] = occupancy[i,0] for every zone i and every period t.
C11_OccupancyConstant ==
    (sol.found /\ built.kind = "consistency" /\ built.max_movement = 0) =>
       \A i \in Zones : \A t \in 0..(Periods - 1) :
          sol.x[<<i, t>>] = sol.x[<<i, 0>>]

\* no movement is permitted and a unit is deployed
C11_Witness ==
    /\ sol.found
    /\ built.kind = "consistency"
    /\ built.max_movement = 0
    /\ \E i \in Zones : sol.x[<<i, 0>>] > 0 /\ sol.x[<<i, Periods - 1>>] > 0

\* the configurations of the built model whose zone is the same at every period
StayConfigs ==
    {c \in DOMAIN built.configs :
        \A t \in 0..(Periods - 1) : built.configs[c][t] = built.configs[c][0]}

\* the frequency vectors that meet the one-hot and the count constraints
FrequencyVectors ==
    {q \in [DOMAIN built.configs -> 0..built.max_config_frequency] :
        SumOver(DOMAIN built.configs, q) = built.num_ambulances}

Selectable ==
    IF args.base_nodes.none THEN DOMAIN built.configs
    ELSE {c \in DOMAIN built.configs :
             built.configs[c][0] \in args.base_nodes.nodes}

\* C13: the base formulation is infeasible exactly when num_ambulances
\* exceeds the number of configurations not excluded by the base restriction
\* (no subset of the selectable configurations has size num_ambulances);
\* otherwise it is feasible.
C13_BaseInfeasibility ==
    (built.kind = "base" /\ pc = "built") =>
       ((Feasible(built) = {}) <=>
           (built.num_ambulances > Cardinality(Selectable)))

\* C14: when a solve ends infeasible, the recorded outcome carries a status
\* that tells infeasibility from a time-limit termination and records no
\* number in place of the fairness gap or objective, in the row of the
\* scripts and in the dict of save_results.
C14_InfeasibleRecorded ==
    (pc = "solved" /\ status = "INFEASIBLE") =>
       /\ last_row.written =>
             /\ last_row.has_status
             /\ last_row.status = "INFEASIBLE"
             /\ last_row.fairness_gap.none
       /\ AnalysisRow(status, sol).status = "INFEASIBLE"
       /\ AnalysisRow(status, sol).fairness_gap.none
       /\ SaveResults(status, sol).status = "INFEASIBLE"
       /\ SaveResults(status, sol).objective.none

\* C15: when a solve stops at the time limit with a feasible incumbent, the
\* incumbent's objective (fairness gap) is recorded together with a
\* non-optimal status, in the row of the script and in the dict of
\* save_results.
C15_IncumbentRecorded ==
    (pc = "solved" /\ status = "TIME_LIMIT" /\ sol.found) =>
       /\ last_row.written =>
             /\ last_row.has_status
             /\ last_row.status = "TIME_LIMIT"
             /\ last_row.fairness_gap = Value(sol.z)
       /\ AnalysisRow(status, sol).status = "TIME_LIMIT"
       /\ AnalysisRow(status, sol).fairness_gap = Value(sol.z)
       /\ SaveResults(status, sol).status = "TIME_LIMIT"
       /\ SaveResults(status, sol).objective = Value(sol.z)

\* C16: the solver environment is acquired once, is held while models are
\* built and solved, and is released on every exit path of the run: after
\* normal completion and after an error raised in between.
C16_EnvReleased ==
    /\ pc = "start" => env = "None"
    /\ pc \in {"ready", "built", "solved"} => env = "live"
    /\ pc \in {"done", "failed"} => env = "disposed"

\* the solver models that one build_model call creates from the inputs of
\* the run, starting from an empty model
FreshBuilds ==
    {BaseBuilt(Zones, HeadConfigs(args.rows, n),
               CoverageMatrix(HeadConfigs(args.rows, n), args.graph),
               args.ambulances, Periods, args.base_nodes) : n \in 0..MaxConfigs}
    \cup
    {BinaryBuilt(Zones, HeadConfigs(args.rows, nf[1]),
                 CoverageMatrix(HeadConfigs(args.rows, nf[1]), args.graph),
                 args.ambulances, Periods, nf[2], args.base_nodes)
        : nf \in (0..MaxConfigs) \X (0..MaxFreq)}
    \cup
    {ConsistencyBuilt(Zones, HeadConfigs(args.rows, nfm[1]), args.graph,
                      args.ambulances, Periods, nfm[2], nfm[3], args.base_nodes)
        : nfm \in (0..MaxConfigs) \X (0..MaxFreq) \X (0..MaxMove)}

\* C17: after any sequence of build_model calls on one object the object
\* has at most one live solver model, every earlier one being disposed, and
\* the current model holds the variables and constraints of the most recent
\* call only.
C17_RebuildFresh ==
    /\ live <= 1
    /\ pc \in {"built", "solved"} => (live = 1 /\ built \in FreshBuilds)

\* build_model is called again on an object that has built and solved
C17_Witness ==
    /\ pc = "built"
    /\ num_rows >= 1
    /\ live = 1

\* C18: when the graph, bases or configuration file is missing or
\* malformed the run stops before any decision model is built; no model is
\* built from partially loaded inputs.
C18_FailFast ==
    built.kind # "none" => args.bases.ok

\* C19: in every feasible assignment of the consistency formulation
\* occupancy[i,0] = 0 for every zone i that is not in the base list passed
\* as base_coords, the empty list included.
C19_NonbaseEmpty ==
    (sol.found /\ built.kind = "consistency" /\ ~args.base_nodes.none) =>
       \A i \in Zones \ args.base_nodes.nodes : sol.x[<<i, 0>>] = 0

\* the units that change zone in period t in the current assignment
TotalMovement(t) ==
    LET pairs == {p \in Zones \X Zones : p[1] # p[2]}
    IN  SumOver(pairs, [p \in pairs |-> Movement(p[1], p[2], t)])

\* C20: in every feasible assignment of the consistency formulation, for
\* each period t < T-1 the sum of movement[i,j,t] over the pairs i # j is
\* at most max_movement.
C20_MovementBudget ==
    (sol.found /\ built.kind = "consistency") =>
       \A t \in 0..(Periods - 2) : TotalMovement(t) <= built.max_movement

\* the budget is positive and is used up
C20_Witness ==
    /\ sol.found
    /\ built.kind = "consistency"
    /\ built.max_movement = 1
    /\ TotalMovement(0) = 1

\* C21: in the consistency formulation a movement variable exists only for
\* the pairs (i,j) with i = j or j in adjacency(i); every (i,j,t) with
\* i # j and j not adjacent to i has no variable and carries zero flow in
\* every feasible assignment.
C21_AdjacentMovesOnly ==
    (sol.found /\ built.kind = "consistency") =>
       /\ \A k \in DOMAIN sol.m :
             k[1] = k[2] \/ k[2] \in AdjGet(built.adjacency, k[1])
       /\ \A i \in Zones : \A j \in Zones : \A t \in 0..(Periods - 2) :
             (i # j /\ j \notin AdjGet(built.adjacency, i)) =>
                /\ <<i, j, t>> \notin DOMAIN sol.m
                /\ Movement(i, j, t) = 0

\* two zones of the graph are not adjacent, and a unit moves along an edge
C21_Witness ==
    /\ sol.found
    /\ built.kind = "consistency"
    /\ "C" \notin AdjGet(built.adjacency, "A")
    /\ <<"A", "C", 0>> \notin DOMAIN sol.m
    /\ Movement("A", "B", 0) = 1

\* the configurations of the built model whose position at period t is i
ConfigsAt(i, t) ==
    {c \in DOMAIN built.configs : built.configs[c][t] = i}

\* C22: in every feasible assignment of the consistency formulation, for
\* every zone i and period t, occupancy[i,t] is the sum of frequency[c] over
\* the configurations c whose position at period t is i, and is 0 when no
\* configuration is at i at period t.
C22_OccupancyFromFrequency ==
    (sol.found /\ built.kind = "consistency") =>
       \A i \in Zones : \A t \in 0..(Periods - 1) :
          /\ sol.x[<<i, t>>] = SumOver(ConfigsAt(i, t), sol.q)
          /\ ConfigsAt(i, t) = {} => sol.x[<<i, t>>] = 0

\* two selected configurations share a zone at one period and part at the
\* next, and some zone holds no configuration
C22_Witness ==
    /\ sol.found
    /\ built.kind = "consistency"
    /\ \E i \in Zones : \E t \in 0..(Periods - 1) :
          /\ Cardinality({c \in ConfigsAt(i, t) : sol.q[c] > 0}) = 2
          /\ sol.x[<<i, t>>] = 2
          /\ sol.x[<<i, 1 - t>>] = 1
    /\ \E i \in Zones : ConfigsAt(i, 0) = {} /\ sol.x[<<i, 0>>] = 0

\* C23: in the sweep of run_base_analysis.py every configuration size is
\* built once and optimized once, and one result row is recorded for it
\* whatever the solver status; a non-optimal status does not end the sweep.
\* A run whose sweep has a size therefore records a row before it ends, and
\* the row of a solve carries the status of that solve.
C23_SweepRows ==
    args.script = "run_base_analysis" =>
       /\ pc \in {"done", "aborted"} => num_rows >= 1
       /\ pc = "solved" =>
             /\ last_row = AnalysisRow(status, sol)
             /\ num_rows >= 1

\* C24: the pooled list of all bases that generate_paths_all_bases builds,
\* and the one that the loop of run_model_comparison / run_consistency
\* builds, holds every base of the bases file once and in file order, for
\* any number of lines of the file.
C24_AllBasesPooled ==
    pg_pc \in {"generate", "saved"} =>
       /\ all_base_nodes = pg_args.bases
       /\ AllBaseNodesList(pg_args.bases) = pg_args.bases

\* every configuration of the built model visits zones of the zone list only
OnGraphConfigs ==
    \A c \in DOMAIN built.configs : \A t \in 0..(Periods - 1) :
       built.configs[c][t] \in built.zones

\* the units stationed over all zones at period t in the current assignment
TotalOccupancy(t) ==
    SumOver(Zones, [i \in Zones |-> sol.x[<<i, t>>]])

\* C25: in every feasible assignment of the consistency formulation whose
\* configurations visit zones of the zone list only, the occupancy summed
\* over all zones equals num_ambulances at every period.
C25_FleetConserved ==
    (sol.found /\ built.kind = "consistency" /\ OnGraphConfigs) =>
       \A t \in 0..(Periods - 1) : TotalOccupancy(t) = built.num_ambulances

\* two units are deployed and stand in different zones at the last period
C25_Witness ==
    /\ sol.found
    /\ built.kind = "consistency"
    /\ OnGraphConfigs
    /\ built.num_ambulances = 2
    /\ \E i \in Zones : \E j \in Zones \ {i} :
          sol.x[<<i, Periods - 1>>] = 1 /\ sol.x[<<j, Periods - 1>>] = 1

\* the frequency-bounded model that the script builds from the inputs of the
\* built consistency model: same zones, configurations, fleet size, frequency
\* bound and base nodes, and the coverage matrix of the same adjacency
BinaryCounterpart ==
    BinaryBuilt(built.zones, built.configs,
                CoverageMatrix(built.configs, built.adjacency),
                built.num_ambulances, built.t_periods,
                built.max_config_frequency, args.base_nodes)

\* the current assignment without occupancy and movement
ProjectedAssignment ==
    [sol EXCEPT !.x = NoSol.x, !.m = NoSol.m]

\* a non-empty collection of base nodes is passed
NonEmptyBases ==
    ~args.base_nodes.none /\ args.base_nodes.nodes # {}

\* C26: the consistency formulation restricts the frequency-bounded one:
\* for the same zones, configurations (on the zone list), adjacency-derived
\* coverage matrix, fleet size, frequency bound and non-empty base set, every
\* feasible consistency assignment projected onto (indicator, frequency,
\* coverage, fairness_gap) is feasible for the frequency-bounded
\* formulation, and the optimal consistency fairness gap is not smaller than
\* the frequency-bounded one.
C26_ConsistencyRestricts ==
    (built.kind = "consistency" /\ OnGraphConfigs /\ NonEmptyBases) =>
       /\ sol.found => ProjectedAssignment \in BinFeasible(BinaryCounterpart)
       /\ pc = "built" =>
             \E F \in {Feasible(built)} :
                F # {} =>
                   /\ BinFeasible(BinaryCounterpart) # {}
                   /\ BestObjective(F) >= BestObjective(BinFeasible(BinaryCounterpart))

\* a consistency assignment in which a unit leaves the base, with a
\* configuration that starts off the bases
C26_Witness ==
    /\ sol.found
    /\ built.kind = "consistency"
    /\ OnGraphConfigs
    /\ NonEmptyBases
    /\ \E c \in DOMAIN built.configs : built.configs[c][0] \notin args.base_nodes.nodes
    /\ \E i \in args.base_nodes.nodes : \E j \in Zones \ {i} : Movement(i, j, 0) = 1

\* the base model that the script builds from the inputs of the built
\* frequency-bounded model
BaseCounterpart ==
    BaseBuilt(built.zones, built.configs, built.b, built.num_ambulances,
              built.t_periods, args.base_nodes)

\* the base assignment with selection[c] = frequency[c] and the coverage and
\* fairness gap of the frequency-bounded assignment a
AsSelection(a) ==
    [NoSol EXCEPT !.found = TRUE, !.lam = a.q, !.y = a.y, !.z = a.z]

\* C27: with max_config_frequency = 1 the frequency-bounded formulation is
\* equivalent to the base formulation on the same inputs: frequency[c] =
\* selection[c] is a bijection between the feasible assignments that keeps
\* coverage and fairness_gap; and for every max_config_frequency >= 1 every
\* feasible base selection is feasible in the frequency-bounded formulation,
\* whose optimal fairness gap is therefore not larger.
C27_FrequencyOneIsBase ==
    (built.kind = "binary" /\ pc = "built") =>
       \E F \in {Feasible(built)} : \E G \in {BaseFeasible(BaseCounterpart)} :
          /\ built.max_config_frequency = 1 =>
                /\ {AsSelection(a) : a \in F} = G
                /\ Cardinality(F) = Cardinality(G)
          /\ built.max_config_frequency >= 1 =>
                /\ G \subseteq {AsSelection(a) : a \in F}
                /\ G # {} => BestObjective(F) <= BestObjective(G)

\* a frequency bound of 1 with several feasible selections, one of which
\* leaves a configuration out
C27_Witness ==
    /\ built.kind = "binary"
    /\ pc = "built"
    /\ built.max_config_frequency = 1
    /\ Cardinality(BaseFeasible(BaseCounterpart)) >= 2
    /\ \E a \in Feasible(built) : \E c \in DOMAIN built.configs :
          \E d \in DOMAIN built.configs : a.q[c] = 1 /\ a.q[d] = 0

\* C28: in every run the operations on a model object come in the order
\* acquire environment -> (build -> set limits -> solve -> read results)*
\* -> cleanup; build_model, parameter setting, optimize and result reads are
\* made only while the environment is initialized and not disposed, and
\* cleanup disposes the model before its environment.
C28_Lifecycle ==
    [][calls' # calls =>
         /\ calls' = AcquireCalls => (calls = <<>> /\ env = "None" /\ env' = "live")
         /\ calls' = BuildCalls =>
               /\ calls \in {AcquireCalls, SolveCalls}
               /\ env = "live" /\ env' = "live" /\ live' = 1
         /\ calls' = SolveCalls =>
               /\ calls = BuildCalls
               /\ env = "live" /\ env' = "live" /\ live = 1 /\ live' = 1
         /\ calls' \notin {AcquireCalls, BuildCalls, SolveCalls} =>
               /\ calls \in {AcquireCalls, SolveCalls}
               /\ calls' = <<"model.dispose", "env.dispose">>
               /\ env = "live" /\ env' = "disposed" /\ live' = 0
         /\ env # "disposed"]_vars

\* a run that built and solved twice and was then cleaned up
C28_Witness ==
    /\ pc = "done"
    /\ num_rows = 2
    /\ calls = CleanupCalls
    /\ env = "disposed"
    /\ live = 0

====
